---- MODULE Spec2Model ----
(***************************************************************************)
(* A model of the faunadb client: the response value codec (serde derives  *)
(* of client/response/value.rs and expr/reference.rs) and the request /    *)
(* response pipeline of client.rs (Client::query, Client::request,         *)
(* Client::build_request), the mutex of client/sync.rs, the expressions    *)
(* of expr.rs with their conversions, the references of                    *)
(* expr/reference.rs and the parameters of query/write/create_database.rs. *)
(*                                                                         *)
(* Specifications:                                                         *)
(*   Spec, FairSpec  one query on one client                               *)
(*   ConcSpec        two queries on one shared client                      *)
(*   SyncSpec        two callers of one SyncClient                         *)
(*   CodecSpec       the codecs and conversions applied to one value       *)
(*   BuilderSpec     the calls made on one ClientBuilder                   *)
(*                                                                         *)
(* JSON documents are modelled as trees:                                   *)
(*   [j |-> "null"], [j |-> "bool", b |-> ..], [j |-> "str", s |-> ..],    *)
(*   [j |-> "int", n |-> ..], [j |-> "float", f |-> ..],                   *)
(*   [j |-> "arr", a |-> <<..>>], [j |-> "obj", o |-> [key |-> ..]]        *)
(* The text <-> tree step is serde_json's; what the repository's derives   *)
(* do with the tree is modelled below.                                     *)
(***************************************************************************)
EXTENDS Integers, Sequences, FiniteSets, TLC

VARIABLES pc, tr, timer, submitted, status, bodyRead, request, result,
          builder, client, lock, cell

\* the request / response pipeline of each query
pipeline == <<pc, tr, timer, submitted, status, bodyRead, request, result>>
\* the client and what it was built from; the SyncClient's mutex; the value
\* a codec operation was last applied to
others == <<builder, client, lock, cell>>
vars == <<pc, tr, timer, submitted, status, bodyRead, request, result,
          builder, client, lock, cell>>

(***************************************************************************)
(* JSON constructors                                                       *)
(***************************************************************************)
JNull == [j |-> "null"]
JBool(b) == [j |-> "bool", b |-> b]
JStr(s) == [j |-> "str", s |-> s]
JInt(n) == [j |-> "int", n |-> n]
JFloat(f) == [j |-> "float", f |-> f]
JArr(a) == [j |-> "arr", a |-> a]
JObj(o) == [j |-> "obj", o |-> o]
EmptyMap == [k \in {} |-> JNull]

IsObj(x) == x.j = "obj"
HasKey(x, k) == IsObj(x) /\ k \in DOMAIN x.o

(***************************************************************************)
(* Texts that are read character by character (base64) are sequences of    *)
(* one-character strings; TextOf folds such a sequence into a string.      *)
(***************************************************************************)
RECURSIVE TextOf(_)
TextOf(cs) == IF Len(cs) = 0 THEN "" ELSE cs[1] \o TextOf(Tail(cs))

(***************************************************************************)
(* base64 (standard alphabet, padded), as base64::encode and               *)
(* base64::decode compute it: three octets make four sextets.  decode      *)
(* rejects a symbol outside the alphabet, a length of 1 mod 4, padding     *)
(* that does not complete a quad, and non-zero trailing bits.              *)
(***************************************************************************)
Base64Alphabet ==
    <<"A", "B", "C", "D", "E", "F", "G", "H", "I", "J", "K", "L", "M",
      "N", "O", "P", "Q", "R", "S", "T", "U", "V", "W", "X", "Y", "Z",
      "a", "b", "c", "d", "e", "f", "g", "h", "i", "j", "k", "l", "m",
      "n", "o", "p", "q", "r", "s", "t", "u", "v", "w", "x", "y", "z",
      "0", "1", "2", "3", "4", "5", "6", "7", "8", "9", "+", "/">>

Base64Pad == "="

Base64Quad(b1, b2, b3) ==
    <<Base64Alphabet[(b1 \div 4) + 1],
      Base64Alphabet[((b1 % 4) * 16) + (b2 \div 16) + 1],
      Base64Alphabet[((b2 % 16) * 4) + (b3 \div 64) + 1],
      Base64Alphabet[(b3 % 64) + 1]>>

RECURSIVE Base64Encode(_)
Base64Encode(b) ==
    CASE Len(b) = 0 -> <<>>
      [] Len(b) = 1 -> SubSeq(Base64Quad(b[1], 0, 0), 1, 2) \o <<Base64Pad, Base64Pad>>
      [] Len(b) = 2 -> SubSeq(Base64Quad(b[1], b[2], 0), 1, 3) \o <<Base64Pad>>
      [] OTHER -> Base64Quad(b[1], b[2], b[3]) \o Base64Encode(SubSeq(b, 4, Len(b)))

IsBase64Symbol(c) == \E i \in 1..64 : Base64Alphabet[i] = c
Base64Sextet(c) == (CHOOSE i \in 1..64 : Base64Alphabet[i] = c) - 1

Base64PadCount(cs) ==
    CASE Len(cs) >= 2 /\ cs[Len(cs)] = Base64Pad /\ cs[Len(cs) - 1] = Base64Pad -> 2
      [] Len(cs) >= 1 /\ cs[Len(cs)] = Base64Pad -> 1
      [] OTHER -> 0

Base64Symbols(cs) == SubSeq(cs, 1, Len(cs) - Base64PadCount(cs))

Base64WellFormed(cs, sym) ==
    /\ \A i \in 1..Len(sym) : IsBase64Symbol(sym[i])
    /\ Len(sym) % 4 # 1
    /\ Len(cs) # Len(sym) => Len(cs) % 4 = 0
    /\ Len(sym) % 4 = 2 => Base64Sextet(sym[Len(sym)]) % 16 = 0
    /\ Len(sym) % 4 = 3 => Base64Sextet(sym[Len(sym)]) % 4 = 0

RECURSIVE Base64Octets(_)
Base64Octets(s) ==
    CASE Len(s) < 2 -> <<>>
      [] Len(s) = 2 -> <<(s[1] * 4) + (s[2] \div 16)>>
      [] Len(s) = 3 -> <<(s[1] * 4) + (s[2] \div 16), ((s[2] % 16) * 16) + (s[3] \div 4)>>
      [] OTHER -> <<(s[1] * 4) + (s[2] \div 16),
                    ((s[2] % 16) * 16) + (s[3] \div 4),
                    ((s[3] % 4) * 64) + s[4]>> \o Base64Octets(SubSeq(s, 5, Len(s)))

Base64DecodeSymbols(cs, sym) ==
    IF Base64WellFormed(cs, sym)
    THEN [ok |-> TRUE, val |-> Base64Octets([i \in 1..Len(sym) |-> Base64Sextet(sym[i])])]
    ELSE [ok |-> FALSE]

Base64Decode(cs) == Base64DecodeSymbols(cs, Base64Symbols(cs))

\* serde/base64_bytes.rs: deserialize_str + base64::decode
DecodeBytes(x) == IF x.j = "str" THEN Base64Decode(x.s) ELSE [ok |-> FALSE]

\* base64 without the padding
EncodeBytesUnpadded(b) == Base64Symbols(Base64Encode(b))

\* serde/base64_bytes.rs: serialize_str(base64::encode(..))
EncodeBytes(b) == Base64Encode(b)

(***************************************************************************)
(* NaiveDate's and DateTime<Utc>'s FromStr are partial functions of the    *)
(* text; they are tabulated on the texts the model uses, every other text  *)
(* is rejected.                                                            *)
(***************************************************************************)
DateTexts == ("2001-05-31" :> [year |-> 2001, month |-> 5, day |-> 31])
TimestampTexts == ("1970-01-01T00:01:00Z" :> [secs |-> 60, nanos |-> 0])

DecodeDate(x) ==
    IF x.j = "str" /\ x.s \in DOMAIN DateTexts
    THEN [ok |-> TRUE, val |-> DateTexts[x.s]]
    ELSE [ok |-> FALSE]

EncodeDate(d) == CHOOSE s \in DOMAIN DateTexts : DateTexts[s] = d

DecodeTimestamp(x) ==
    IF x.j = "str" /\ x.s \in DOMAIN TimestampTexts
    THEN [ok |-> TRUE, val |-> TimestampTexts[x.s]]
    ELSE [ok |-> FALSE]

EncodeTimestamp(t) == CHOOSE s \in DOMAIN TimestampTexts : TimestampTexts[s] = t

(***************************************************************************)
(* expr/reference.rs: Ref { id, #[serde(flatten)] location }               *)
(* Three variants of RefLocation are renamed "class"; the derived variant  *)
(* matcher takes the first arm, so the key "class" always selects Class.   *)
(* A flattened Option swallows every failure of its content into None.     *)
(***************************************************************************)
NoLocation == [kind |-> "None"]
NotDecoded == [ok |-> FALSE]
Decoded(val) == [ok |-> TRUE, val |-> val]

\* the entry of the flattened map that names a variant of RefLocation
LocationKey(o) ==
    IF "class" \in DOMAIN o THEN "class"
    ELSE IF "index" \in DOMAIN o THEN "index" ELSE "none"

\* Option<RefLocation> from the decoded content of the variant
LocationOf(key, inner) ==
    IF inner.ok
    THEN [kind |-> IF key = "class" THEN "Class" ELSE "Index", location |-> inner.val]
    ELSE NoLocation

RECURSIVE DecodeRef(_)
\* RefLocation::{Class, Index} { #[serde(rename = "@ref")] location: Box<Ref> }
DecodeLocation(o, key) ==
    IF key # "none" /\ HasKey(o[key], "@ref")
    THEN LocationOf(key, DecodeRef(o[key].o["@ref"]))
    ELSE NoLocation

DecodeRef(x) ==
    IF IsObj(x) /\ HasKey(x, "id") /\ x.o["id"].j = "str"
    THEN Decoded([id |-> x.o["id"].s, location |-> DecodeLocation(x.o, LocationKey(x.o))])
    ELSE NotDecoded

RECURSIVE RefToJson(_)
RefToJson(r) ==
    IF r.location.kind = "None"
    THEN JObj("id" :> JStr(r.id))
    ELSE JObj(("id" :> JStr(r.id)) @@
              ((IF r.location.kind = "Index" THEN "index" ELSE "class")
                 :> JObj("@ref" :> RefToJson(r.location.location))))

(***************************************************************************)
(* expr/reference.rs: the constructors and setters of Ref, path() and the  *)
(* derived PartialEq.                                                      *)
(***************************************************************************)
Located(kind, r) == [kind |-> kind, location |-> r]

RefInstance(id) == [id |-> id, location |-> NoLocation]
RefClass(id) == [id |-> id, location |-> Located("Class", RefInstance("classes"))]
RefIndex(id) == [id |-> id, location |-> Located("Index", RefInstance("indexes"))]
RefFunction(id) == [id |-> id, location |-> Located("Function", RefInstance("functions"))]
RefDatabase(id) == [id |-> id, location |-> Located("Database", RefInstance("databases"))]

\* set_class that keeps the old location inside the new one
SetClassNested(r, id) ==
    [r EXCEPT !.location = Located("Class", [id |-> id, location |-> r.location])]

SetClass(r, id) == [r EXCEPT !.location = Located("Class", RefClass(id))]
SetIndex(r, id) == [r EXCEPT !.location = Located("Index", RefIndex(id))]

\* a path that starts from the kind of the location, whatever it holds
PathFromKind(r) ==
    CASE r.location.kind = "None" -> r.id
      [] r.location.kind = "Class" -> "classes/" \o r.id
      [] r.location.kind = "Index" -> "indexes/" \o r.id
      [] r.location.kind = "Function" -> "functions/" \o r.id
      [] r.location.kind = "Database" -> "databases/" \o r.id

RECURSIVE Path(_)
\* RefLocation::path: the path of the reference a location holds
LocationPath(l) == Path(l.location)

\* Ref::path
Path(r) ==
    IF r.location.kind # "None" THEN LocationPath(r.location) \o "/" \o r.id ELSE r.id

RECURSIVE RefEq(_, _)
\* locations that are equal when their references are, whatever their kinds
LocationEqAnyKind(l, m) ==
    CASE l.kind = "None" /\ m.kind = "None" -> TRUE
      [] l.kind # "None" /\ m.kind # "None" -> RefEq(l.location, m.location)
      [] OTHER -> FALSE

\* Option<RefLocation> == Option<RefLocation>: both None, or the same
\* variant with equal fields
LocationEq(l, m) ==
    CASE l.kind = "None" /\ m.kind = "None" -> TRUE
      [] l.kind # "None" /\ l.kind = m.kind -> RefEq(l.location, m.location)
      [] OTHER -> FALSE

\* Ref == Ref: field by field
RefEq(a, b) == a.id = b.id /\ LocationEq(a.location, b.location)

(***************************************************************************)
(* client/response/value.rs: Value, SimpleValue, AnnotatedValue and        *)
(* expr/number.rs: Number.  A value is a record tagged by v; an annotated  *)
(* value holds its payload in p.                                           *)
(***************************************************************************)
AnnotationTags == {"@ref", "@query", "@bytes", "@date", "@set", "@ts"}

VString(s) == [v |-> "String", s |-> s]
VNumber(kind, n) == [v |-> "Number", kind |-> kind, n |-> n]
VBoolean(b) == [v |-> "Boolean", b |-> b]
VArray(a) == [v |-> "Array", a |-> a]
VObject(o) == [v |-> "Object", o |-> o]
VNull == [v |-> "Null"]
VAnnotated(variant, p) == [v |-> variant, p |-> p]

\* #[serde(untagged)] Number: UInt(u64) is tried before Int(i64), then
\* Double(f64); Float(f32) is never reached.
DecodeNumber(x) ==
    IF x.j = "int"
    THEN IF x.n >= 0 THEN VNumber("UInt", x.n) ELSE VNumber("Int", x.n)
    ELSE VNumber("Double", x.f)

\* the newtype variant around a decoded payload
Variant(variant, payload) ==
    IF payload.ok THEN Decoded(VAnnotated(variant, payload.val)) ELSE NotDecoded

RECURSIVE DecodeValue(_)
\* the variant named tag, from its payload p
DecodeVariant(tag, p) ==
    CASE tag = "@ref" -> Variant("Ref", DecodeRef(p))
      [] tag = "@query" -> Decoded(VAnnotated("Query", DecodeValue(p)))
      [] tag = "@bytes" -> Variant("Bytes", DecodeBytes(p))
      [] tag = "@date" -> Variant("Date", DecodeDate(p))
      [] tag = "@set" -> Decoded(VAnnotated("Set", DecodeValue(p)))
      [] tag = "@ts" -> Variant("Timestamp", DecodeTimestamp(p))
      [] OTHER -> NotDecoded

\* the key of a map with one entry
OnlyKey(o) == CHOOSE k \in DOMAIN o : TRUE

\* AnnotatedValue is an externally tagged enum: a map with exactly one entry
\* whose key is a variant name and whose payload decodes.
DecodeAnnotated(x) ==
    IF IsObj(x) /\ Cardinality(DOMAIN x.o) = 1
    THEN DecodeVariant(OnlyKey(x.o), x.o[OnlyKey(x.o)])
    ELSE NotDecoded

\* SimpleValue, #[serde(untagged)]: String, Number, Boolean, Array, Object, Null
DecodeSimple(x) ==
    CASE x.j = "str" -> VString(x.s)
      [] x.j \in {"int", "float"} -> DecodeNumber(x)
      [] x.j = "bool" -> VBoolean(x.b)
      [] x.j = "arr" -> VArray([i \in DOMAIN x.a |-> DecodeValue(x.a[i])])
      [] x.j = "obj" -> VObject([k \in DOMAIN x.o |-> DecodeValue(x.o[k])])
      [] x.j = "null" -> VNull

\* the first variant of an untagged enum that decodes
FirstOf(ann, x) == IF ann.ok THEN ann.val ELSE DecodeSimple(x)

\* Value, #[serde(untagged)]: Annotated is tried first, then Simple
DecodeValue(x) == FirstOf(DecodeAnnotated(x), x)

\* derive(Serialize) of Value / SimpleValue / AnnotatedValue
RECURSIVE ValueToJson(_)
ValueToJson(val) ==
    CASE val.v = "String" -> JStr(val.s)
      [] val.v = "Number" ->
           IF val.kind \in {"UInt", "Int"} THEN JInt(val.n) ELSE JFloat(val.n)
      [] val.v = "Boolean" -> JBool(val.b)
      [] val.v = "Array" -> JArr([i \in DOMAIN val.a |-> ValueToJson(val.a[i])])
      [] val.v = "Object" -> JObj([k \in DOMAIN val.o |-> ValueToJson(val.o[k])])
      [] val.v = "Null" -> JNull
      [] val.v = "Ref" -> JObj("@ref" :> RefToJson(val.p))
      [] val.v = "Query" -> JObj("@query" :> ValueToJson(val.p))
      [] val.v = "Bytes" -> JObj("@bytes" :> JStr(EncodeBytes(val.p)))
      [] val.v = "Date" -> JObj("@date" :> JStr(EncodeDate(val.p)))
      [] val.v = "Set" -> JObj("@set" :> ValueToJson(val.p))
      [] val.v = "Timestamp" -> JObj("@ts" :> JStr(EncodeTimestamp(val.p)))

(***************************************************************************)
(* Response bodies.  A body is the concatenation of the chunks received:   *)
(* either bytes that are not UTF-8, or a text; a text either is a JSON     *)
(* document (doc = <<tree>>) or is not (doc = <<>>, e.g. the empty text).  *)
(***************************************************************************)
NonUtf8Body == [utf8 |-> FALSE]
PlainText(raw) == [utf8 |-> TRUE, doc |-> <<>>, raw |-> raw]
JsonText(x) == [utf8 |-> TRUE, doc |-> <<x>>, raw |-> "json"]
EmptyBody == PlainText("")

\* serde_json::from_str, text -> tree
ParseJson(text) ==
    IF text.doc # <<>> THEN [ok |-> TRUE, val |-> text.doc[1]] ELSE [ok |-> FALSE]

(***************************************************************************)
(* derive(Deserialize) of the structs.  serde_json hands a derived struct  *)
(* either a map (fields by name, unknown fields ignored) or a sequence     *)
(* (fields by position, exactly as many elements as fields).               *)
(***************************************************************************)
\* the fields named names of x, in order; <<>> when x has not that shape
StructFields(x, names) ==
    CASE IsObj(x) /\ (\A i \in DOMAIN names : names[i] \in DOMAIN x.o) ->
           [i \in DOMAIN names |-> x.o[names[i]]]
      [] x.j = "arr" /\ Len(x.a) = Len(names) -> x.a
      [] OTHER -> <<>>

\* client/response.rs: struct Response { resource: Value }
ResponseOf(fields) ==
    IF fields # <<>> THEN Decoded([resource |-> DecodeValue(fields[1])]) ELSE NotDecoded

DecodeResponse(x) == ResponseOf(StructFields(x, <<"resource">>))

\* Vec<Value>
DecodePosition(x) ==
    IF x.j = "arr"
    THEN Decoded([i \in DOMAIN x.a |-> DecodeValue(x.a[i])])
    ELSE NotDecoded

\* error.rs: struct FaunaError { position: Vec<Value>, code: String, description: String }
FaunaErrorOf(fields) ==
    IF fields # <<>> /\ fields[1].j = "arr" /\ fields[2].j = "str" /\ fields[3].j = "str"
    THEN Decoded([position |-> DecodePosition(fields[1]).val,
                  code |-> fields[2].s,
                  description |-> fields[3].s])
    ELSE NotDecoded

DecodeFaunaError(x) == FaunaErrorOf(StructFields(x, <<"position", "code", "description">>))

\* a Vec decodes when every element does
AllDecoded(items) ==
    IF \A i \in DOMAIN items : items[i].ok
    THEN Decoded([i \in DOMAIN items |-> items[i].val])
    ELSE NotDecoded

\* Vec<FaunaError>
DecodeErrorList(x) ==
    IF x.j = "arr"
    THEN AllDecoded([i \in DOMAIN x.a |-> DecodeFaunaError(x.a[i])])
    ELSE NotDecoded

\* error.rs: struct FaunaErrors { errors: Vec<FaunaError> }
FaunaErrorsOf(list) ==
    IF list.ok THEN Decoded([errors |-> list.val]) ELSE NotDecoded

ErrorsField(fields) ==
    IF fields # <<>> THEN FaunaErrorsOf(DecodeErrorList(fields[1])) ELSE NotDecoded

DecodeFaunaErrors(x) == ErrorsField(StructFields(x, <<"errors">>))

(***************************************************************************)
(* error.rs: Error, and the outcome of polling a future                    *)
(***************************************************************************)
ErrConnection == [e |-> "ConnectionError"]
ErrTimeout == [e |-> "TimeoutError"]
ErrOther == [e |-> "Other"]
ErrUnauthorized == [e |-> "Unauthorized"]
ErrEmptyResponse == [e |-> "EmptyResponse"]
ErrBadRequest(errs) == [e |-> "BadRequest", errors |-> errs]
ErrNotFound(errs) == [e |-> "NotFound", errors |-> errs]
\* client.rs names the String-carrying variant TemporaryFailure, error.rs
\* declares it as DatabaseError(String).
ErrDatabase(text) == [e |-> "DatabaseError", text |-> text]

NotReady == [p |-> "NotReady"]
ReadyOk(val) == [p |-> "Ok", val |-> val]
ReadyErr(err) == [p |-> "Err", err |-> err]
Panic == [p |-> "Panic"]

\* http::StatusCode::is_success
IsSuccess(s) == s >= 200 /\ s < 300

\* Result::unwrap
Unwrap(res) == IF res.ok THEN ReadyOk(res.val) ELSE Panic

\* serde_json::from_str::<Response>
ResponseFromStr(doc) == IF doc.ok THEN DecodeResponse(doc.val) ELSE NotDecoded

\* serde_json::from_str::<FaunaErrors>
FaunaErrorsFromStr(doc) == IF doc.ok THEN DecodeFaunaErrors(doc.val) ELSE NotDecoded

\* Client::query's closure: serde_json::from_str(&body).unwrap()
ParseResponseBody(body) == Unwrap(ResponseFromStr(ParseJson(body)))

\* let errors: FaunaErrors = serde_json::from_str(&body).unwrap();
ParseErrorsBody(body) == Unwrap(FaunaErrorsFromStr(ParseJson(body)))

\* future::err(Error::BadRequest(errors)), unless the unwrap panicked
BadRequestOf(d) == IF d.p = "Ok" THEN ReadyErr(ErrBadRequest(d.val.errors)) ELSE Panic

\* future::err(Error::NotFound(errors)), unless the unwrap panicked
NotFoundOf(d) == IF d.p = "Ok" THEN ReadyErr(ErrNotFound(d.val.errors)) ELSE Panic

\* Classify with the catch-all arm decoding the body as an error list
ClassifyDecodesOther(st, body) ==
    IF body.utf8
    THEN CASE IsSuccess(st) -> ParseResponseBody(body)
           [] st = 401 -> ReadyErr(ErrUnauthorized)
           [] st = 400 -> BadRequestOf(ParseErrorsBody(body))
           [] st = 404 -> NotFoundOf(ParseErrorsBody(body))
           [] OTHER ->
                IF ParseErrorsBody(body).p = "Ok" THEN ReadyErr(ErrDatabase(body)) ELSE Panic
    ELSE ReadyErr(ErrEmptyResponse)

\* Classify with the arms of 400 and 404 exchanged
ClassifySwapsErrorKinds(st, body) ==
    IF body.utf8
    THEN CASE IsSuccess(st) -> ParseResponseBody(body)
           [] st = 401 -> ReadyErr(ErrUnauthorized)
           [] st = 400 -> NotFoundOf(ParseErrorsBody(body))
           [] st = 404 -> BadRequestOf(ParseErrorsBody(body))
           [] OTHER -> ReadyErr(ErrDatabase(body))
    ELSE ReadyErr(ErrEmptyResponse)

\* Client::request, the closure given to get_body.and_then
Classify(st, body) ==
    IF body.utf8
    THEN CASE IsSuccess(st) -> ParseResponseBody(body)
           [] st = 401 -> ReadyErr(ErrUnauthorized)
           [] st = 400 -> BadRequestOf(ParseErrorsBody(body))
           [] st = 404 -> NotFoundOf(ParseErrorsBody(body))
           [] OTHER -> ReadyErr(ErrDatabase(body))
    ELSE ReadyErr(ErrEmptyResponse)

(***************************************************************************)
(* tokio_timer::Timeout.  Its error is Inner(e), Elapsed or Timer;         *)
(* is_timer() holds of Timer only, into_inner() is Some of Inner only.     *)
(***************************************************************************)
TimeoutInner(err) == [kind |-> "Inner", inner |-> err]
TimeoutElapsed == [kind |-> "Elapsed"]
TimeoutTimer == [kind |-> "Timer"]

\* Client::request, the closure given to Timeout::map_err
MapTimeoutError(terr) ==
    IF terr.kind = "Timer"
    THEN ErrTimeout
    ELSE IF terr.kind = "Inner" THEN terr.inner ELSE ErrOther

(***************************************************************************)
(* The environment: what the server may answer.                            *)
(***************************************************************************)
Queries == {"q1", "q2"}
\* the query of a caller that works alone
Solo == {"q1"}

\* the largest number of chunks a response body is delivered in
MaxChunks == 2

Statuses == {200, 204, 300, 400, 401, 404, 500}

TestObject == JObj([test_field |-> JStr("test_value")])

Err1 == JObj([position |-> JArr(<<>>), code |-> JStr("invalid argument"),
              description |-> JStr("bad")])
Err2 == JObj([position |-> JArr(<<JStr("data"), JInt(0)>>), code |-> JStr("not found"),
              description |-> JStr("missing"), extra |-> JNull])

JsonDocs ==
    { JObj([resource |-> JObj([object |-> TestObject])]),
      JObj([resource |-> TestObject]),
      JObj([resource |-> JArr(<<JInt(1), JNull>>)]),
      JObj([errors |-> JArr(<<Err1>>)]),
      JObj([errors |-> JArr(<<Err2, Err1>>)]),
      JObj([errors |-> JArr(<<>>)]),
      JObj([errors |-> JArr(<<JObj([code |-> JStr("x")])>>)]),
      JStr("Service Unavailable") }

Bodies == {NonUtf8Body, EmptyBody, PlainText("<html>")} \cup {JsonText(x) : x \in JsonDocs}

QueryPayloads == {"null", "{\"object\":{}}"}

(***************************************************************************)
(* client.rs: Client and Client::build_request                             *)
(***************************************************************************)
ClientUri == "https://db.fauna.com"
LocalUri == "http://localhost:8443"
Uris == {ClientUri, LocalUri}
\* the secret, as octets: "secret" and "k"
ClientSecret == <<115, 101, 99, 114, 101, 116>>
Secrets == {ClientSecret, <<107>>}
\* octet of ':'
Colon == 58
\* ClientBuilder::new: Duration::new(60, 0)
DefaultTimeout == 60

\* Client::builder(secret) and the setter ClientBuilder::uri
Builder(secret) == [uri |-> ClientUri, secret |-> secret, timeout |-> DefaultTimeout]
BuilderUri(b, uri) == [b EXCEPT !.uri = uri]

\* a timeout setter that also puts the default uri back
BuilderTimeoutResetsUri(b, timeout) == [b EXCEPT !.timeout = timeout, !.uri = ClientUri]

\* the setter ClientBuilder::timeout, in seconds
BuilderTimeout(b, timeout) == [b EXCEPT !.timeout = timeout]

\* ClientBuilder::build: format!("Basic {}", base64::encode(format!("{}:", secret)))
Authorization(secret) ==
    <<"B", "a", "s", "i", "c", " ">> \o Base64Encode(secret \o <<Colon>>)

Build(b) == [uri |-> b.uri, timeout |-> b.timeout, authorization |-> Authorization(b.secret)]

ClientAuthorization == Authorization(ClientSecret)

\* build_request without the Authorization header
BuildRequestAnonymous(payload) ==
    [method |-> "POST",
     uri |-> client.uri,
     content_length |-> Len(payload),
     content_type |-> "application/json",
     authorization |-> <<>>,
     api_version |-> "2.1",
     body |-> payload]

BuildRequest(payload) ==
    [method |-> "POST",
     uri |-> client.uri,
     content_length |-> Len(payload),
     content_type |-> "application/json",
     authorization |-> client.authorization,
     api_version |-> "2.1",
     body |-> payload]

NoRequest == [method |-> "none"]
NoResult == [r |-> "None"]
NoBody == [utf8 |-> FALSE, none |-> TRUE]
NoStatus == 0
IdleTransport == [stage |-> "idle", status |-> NoStatus, chunks |-> 0, body |-> NoBody]

Running == {"Built", "Sent"}
Terminal == {"Succeeded", "Failed", "TimedOut"}

NoCell == [op |-> "none"]

Init ==
    /\ pc = [q \in Queries |-> "Idle"]
    /\ tr = [q \in Queries |-> IdleTransport]
    /\ timer = [q \in Queries |-> "unset"]
    /\ submitted = [q \in Queries |-> 0]
    /\ status = [q \in Queries |-> NoStatus]
    /\ bodyRead = [q \in Queries |-> NoBody]
    /\ request = [q \in Queries |-> NoRequest]
    /\ result = [q \in Queries |-> NoResult]
    /\ builder \in {BuilderUri(Builder(secret), uri) : secret \in Secrets, uri \in Uris}
    /\ client = Build(builder)
    /\ lock = "free"
    /\ cell = NoCell

(***************************************************************************)
(* Client::query up to the return of the future: the query is serialized,  *)
(* the request is built and wrapped in a Timeout whose delay starts now.   *)
(* Nothing is sent before the future is polled.                            *)
(***************************************************************************)
Query(q) ==
    /\ pc[q] = "Idle"
    /\ \E payload \in QueryPayloads :
         request' = [request EXCEPT ![q] = BuildRequest(payload)]
    /\ pc' = [pc EXCEPT ![q] = "Built"]
    /\ timer' = [timer EXCEPT ![q] = "running"]
    /\ UNCHANGED <<tr, submitted, status, bodyRead, result>>

(***************************************************************************)
(* The transport (hyper) and the server behind it.  They go on after the   *)
(* query's future has resolved: nothing is cancelled server-side.          *)
(***************************************************************************)
HeadersArriveFrom(q, statuses) ==
    /\ tr[q].stage = "pending"
    /\ \E st \in statuses :
         tr' = [tr EXCEPT ![q] = [@ EXCEPT !.stage = "headers", !.status = st]]
    /\ UNCHANGED <<pc, timer, submitted, status, bodyRead, request, result>>

HeadersArrive(q) == HeadersArriveFrom(q, Statuses)

ChunkArrive(q) ==
    /\ tr[q].stage = "headers"
    /\ tr[q].chunks < MaxChunks
    /\ tr' = [tr EXCEPT ![q] = [@ EXCEPT !.chunks = @ + 1]]
    /\ UNCHANGED <<pc, timer, submitted, status, bodyRead, request, result>>

\* the body stream ends; a body without chunks is the empty body
BodyEndFrom(q, bodies) ==
    /\ tr[q].stage = "headers"
    /\ \E b \in bodies :
         /\ (b = EmptyBody) <=> (tr[q].chunks = 0)
         /\ tr' = [tr EXCEPT ![q] = [@ EXCEPT !.stage = "complete", !.body = b]]
    /\ UNCHANGED <<pc, timer, submitted, status, bodyRead, request, result>>

BodyEnd(q) == BodyEndFrom(q, Bodies)

\* the connection fails, before the headers or while the body is streamed
TransportError(q) ==
    /\ tr[q].stage \in {"pending", "headers"}
    /\ tr' = [tr EXCEPT ![q] = [@ EXCEPT !.stage = "error"]]
    /\ UNCHANGED <<pc, timer, submitted, status, bodyRead, request, result>>

\* the deadline passes while the Timeout is alive
TimerElapse(q) ==
    /\ pc[q] \in Running
    /\ timer[q] = "running"
    /\ timer' = [timer EXCEPT ![q] = "elapsed"]
    /\ UNCHANGED <<pc, tr, submitted, status, bodyRead, request, result>>

\* the timer itself fails (shut down, at capacity)
TimerFail(q) ==
    /\ pc[q] \in Running
    /\ timer[q] = "running"
    /\ timer' = [timer EXCEPT ![q] = "error"]
    /\ UNCHANGED <<pc, tr, submitted, status, bodyRead, request, result>>

(***************************************************************************)
(* One poll of the future Client::request returns.                         *)
(***************************************************************************)
\* get_body (concat2) yields only when the body stream has ended
BodyComplete(t) == t.stage = "complete"

\* PollRequesting answering a 401 from the headers, the body not awaited
PollRequestingEarly401(t) ==
    CASE t.stage = "error" -> ReadyErr(ErrConnection)
      [] t.stage = "headers" /\ t.status = 401 -> ReadyErr(ErrUnauthorized)
      [] BodyComplete(t) -> Classify(t.status, t.body)
      [] OTHER -> NotReady

\* `requesting`: send_request.and_then(.. get_body.and_then(..)), polled on
\* transport state t
PollRequesting(t) ==
    CASE t.stage = "error" -> ReadyErr(ErrConnection)
      [] BodyComplete(t) -> Classify(t.status, t.body)
      [] OTHER -> NotReady

\* Timeout::poll once the inner future was polled: the delay is looked at
\* only when the inner future is not ready
TimeoutOutcome(inner, tm) ==
    CASE inner.p = "Ok" -> inner
      [] inner.p = "Err" -> ReadyErr(TimeoutInner(inner.err))
      [] inner.p = "Panic" -> Panic
      [] OTHER ->
           CASE tm = "elapsed" -> ReadyErr(TimeoutElapsed)
             [] tm = "error" -> ReadyErr(TimeoutTimer)
             [] OTHER -> NotReady

\* Timeout::poll: the inner future first, then the delay
PollTimeout(t, tm) == TimeoutOutcome(PollRequesting(t), tm)

\* the state of the query after Timeout::poll returned out
StateAfter(out) ==
    CASE out.p = "Ok" -> "Succeeded"
      [] out.p = "Panic" -> "Panicked"
      [] out.p = "Err" /\ out.err.kind = "Elapsed" -> "TimedOut"
      [] out.p = "Err" -> "Failed"
      [] OTHER -> "Sent"

\* what the caller gets: Ok as it is, Err through the map_err closure
ResultOf(out) ==
    CASE out.p = "Ok" -> [r |-> "Ok", response |-> out.val]
      [] out.p = "Err" -> [r |-> "Err", error |-> MapTimeoutError(out.err)]
      [] OTHER -> NoResult

\* the transport as the poll finds it: the first poll submits the request
TransportAtPoll(q) ==
    IF pc[q] = "Built" THEN [tr[q] EXCEPT !.stage = "pending"] ELSE tr[q]

\* the poll of query q on transport state t returned out
Resolve(q, t, out) ==
    /\ tr' = [tr EXCEPT ![q] = t]
    /\ submitted' = [submitted EXCEPT ![q] = IF pc[q] = "Built" THEN @ + 1 ELSE @]
    /\ status' = [status EXCEPT ![q] = t.status]
    /\ bodyRead' = [bodyRead EXCEPT ![q] = IF BodyComplete(t) THEN t.body ELSE @]
    /\ pc' = [pc EXCEPT ![q] = StateAfter(out)]
    /\ result' = [result EXCEPT ![q] = ResultOf(out)]

\* one deadline for all the requests of the client
PollOnSharedDeadline(q, t) ==
    Resolve(q, t, PollTimeout(t, IF \E p \in Queries : timer[p] = "elapsed"
                                 THEN "elapsed" ELSE timer[q]))

PollOn(q, t) == Resolve(q, t, PollTimeout(t, timer[q]))

Poll(q) ==
    /\ pc[q] \in Running
    /\ PollOn(q, TransportAtPoll(q))
    /\ UNCHANGED <<timer, request>>

\* one caller, one query
Next ==
    /\ \E q \in Solo :
          \/ Query(q)
          \/ Poll(q)
          \/ HeadersArrive(q)
          \/ ChunkArrive(q)
          \/ BodyEnd(q)
          \/ TransportError(q)
          \/ TimerElapse(q)
          \/ TimerFail(q)
    /\ UNCHANGED others

Spec == Init /\ [][Next]_vars

\* the runtime polls a pending future again, and the deadline passes
FairSpec ==
    Spec /\ \A q \in Solo :
               /\ WF_vars(Poll(q) /\ UNCHANGED others)
               /\ WF_vars((TimerElapse(q) \/ TimerFail(q)) /\ UNCHANGED others)

(***************************************************************************)
(* Several queries at once.  The answers are drawn from a few statuses and *)
(* bodies, one of each kind of outcome.                                    *)
(***************************************************************************)
FewStatuses == {200, 400}
FewBodies ==
    {EmptyBody, JsonText(JObj([resource |-> TestObject])),
     JsonText(JObj([errors |-> JArr(<<Err1>>)]))}

\* what the transport and the timer do for query q
Environment(q) ==
    \/ HeadersArriveFrom(q, FewStatuses)
    \/ ChunkArrive(q)
    \/ BodyEndFrom(q, FewBodies)
    \/ TransportError(q)
    \/ TimerElapse(q)
    \/ TimerFail(q)

(***************************************************************************)
(* Two queries issued on one shared Client, each its own future polled on  *)
(* its own: Client::request keeps everything it needs in the future.       *)
(***************************************************************************)
ConcNext ==
    /\ \E q \in Queries :
          \/ Query(q)
          \/ Poll(q)
          \/ Environment(q)
    /\ UNCHANGED others

\* the client of Client::builder(secret).build()
OneClient == Init /\ builder = Builder(ClientSecret)

\* the shared client: the default one, or one with its own uri and secret
SharedClient == Init /\ (builder.uri = ClientUri <=> builder.secret = ClientSecret)

ConcSpec == SharedClient /\ [][ConcNext]_vars

(***************************************************************************)
(* client/sync.rs: SyncClient::query, one caller per query.                *)
(*   self.runtime.lock().unwrap().block_on(self.inner.query(query))        *)
(* The guard is taken first, the future is built and driven under it, and  *)
(* the guard is dropped when the statement ends.  A panic under the guard  *)
(* poisons the mutex, and lock().unwrap() panics on a poisoned mutex.      *)
(***************************************************************************)
\* SyncClient::query without the mutex
SyncQueryUnlocked(q) ==
    /\ lock # "poisoned"
    /\ Query(q)
    /\ lock' = q
    /\ UNCHANGED <<builder, client, cell>>

SyncQuery(q) ==
    /\ lock = "free"
    /\ Query(q)
    /\ lock' = q
    /\ UNCHANGED <<builder, client, cell>>

\* block_on polls the future
SyncPoll(q) ==
    /\ Poll(q)
    /\ UNCHANGED others

\* block_on returned the result: the guard is dropped
SyncReturn(q) ==
    /\ lock = q
    /\ pc[q] \in Terminal
    /\ lock' = "free"
    /\ UNCHANGED <<pipeline, builder, client, cell>>

\* the caller unwinds from block_on with the guard held
SyncUnwind(q) ==
    /\ lock = q
    /\ pc[q] = "Panicked"
    /\ lock' = "poisoned"
    /\ UNCHANGED <<pipeline, builder, client, cell>>

\* lock() on the poisoned mutex: unwrap panics
SyncPoisoned(q) ==
    /\ lock = "poisoned"
    /\ pc[q] = "Idle"
    /\ pc' = [pc EXCEPT ![q] = "Panicked"]
    /\ UNCHANGED <<tr, timer, submitted, status, bodyRead, request, result, others>>

SyncNext ==
    \E q \in Queries :
        \/ SyncQuery(q)
        \/ SyncPoll(q)
        \/ SyncReturn(q)
        \/ SyncUnwind(q)
        \/ SyncPoisoned(q)
        \/ Environment(q) /\ UNCHANGED others

SyncSpec == OneClient /\ [][SyncNext]_vars

(***************************************************************************)
(* Values built from host primitives: the From impls of value.rs and the   *)
(* int_expr! / uint_expr! macros of macros.rs, and the accessors of        *)
(* expr/number.rs.                                                         *)
(***************************************************************************)
\* the longest sequence, and the most octets, entries or insertions, drawn
MaxLen == 2

SignedTypes == {"i8", "i16", "i32", "i64"}
UnsignedTypes == {"u8", "u16", "u32", "u64"}
FloatTypes == {"f64", "f32"}

\* values of each host type, its extremes included as far as the checker's
\* integers reach
HostRange(host) ==
    CASE host = "i8" -> {-128, -1, 0, 4, 127}
      [] host = "i16" -> {-32768, -1, 0, 4, 32767}
      [] host \in {"i32", "i64"} -> {-2147483647, -1, 0, 4, 2147483647}
      [] host = "u8" -> {0, 4, 255}
      [] host = "u16" -> {0, 4, 65535}
      [] host \in {"u32", "u64"} -> {0, 4, 2147483647}
      [] host \in FloatTypes -> {"0.5", "-2.0"}

Number(kind, n) == [kind |-> kind, n |-> n]

\* int_expr!: Number::Int(i64::from(i)); uint_expr!: Number::UInt(u64::from(i));
\* From<f64>: Number::Double(f); From<f32>: Number::Float(f)
NumberFrom(host, n) ==
    CASE host \in SignedTypes -> Number("Int", n)
      [] host \in UnsignedTypes -> Number("UInt", n)
      [] host = "f64" -> Number("Double", n)
      [] host = "f32" -> Number("Float", n)

None == [some |-> FALSE]
Some(val) == [some |-> TRUE, val |-> val]

AsU64(num) == IF num.kind = "UInt" THEN Some(num.n) ELSE None

\* as_i64 that also answers for an unsigned number
AsI64Promoting(num) == IF num.kind \in {"Int", "UInt"} THEN Some(num.n) ELSE None

AsI64(num) == IF num.kind = "Int" THEN Some(num.n) ELSE None
AsF64(num) == IF num.kind = "Double" THEN Some(num.n) ELSE None
AsF32(num) == IF num.kind = "Float" THEN Some(num.n) ELSE None

IsU64(num) == num.kind = "UInt"
IsI64(num) == num.kind = "Int"
IsF64(num) == num.kind = "Double"
IsF32(num) == num.kind = "Float"

\* impl From<&str> for Value, impl<T: Into<Number>> From<T> for Value,
\* impl From<Vec<V>> for Value, impl From<BTreeMap<S, V>> for Value
FromStr(s) == VString(s)
FromNumber(num) == VNumber(num.kind, num.n)
FromVec(a) == VArray(a)
FromMap(m) == VObject(m)

\* error.rs: Error::ConversionError(&'static str), and a FaunaResult
ErrConversion(text) == [e |-> "ConversionError", text |-> text]
Ok(val) == [ok |-> TRUE, val |-> val]
Failed(err) == [ok |-> FALSE, err |-> err]

\* impl TryFrom<Value> for String
TryFromString(val) ==
    IF val.v = "String" THEN Ok(val.s) ELSE Failed(ErrConversion("Value is not a String"))

\* the conversion into a map with the message of the conversion into a Vec
TryFromMapSaysArray(val) ==
    IF val.v = "Object" THEN Ok(val.o) ELSE Failed(ErrConversion("Value is not an Array"))

\* impl TryFrom<Value> for BTreeMap<String, Value>
TryFromMap(val) ==
    IF val.v = "Object" THEN Ok(val.o) ELSE Failed(ErrConversion("Value is not an Object"))

\* impl TryFrom<Value> for Vec<Value>
TryFromVec(val) ==
    IF val.v = "Array" THEN Ok(val.a) ELSE Failed(ErrConversion("Value is not an Array"))

HostStrings == {"", "a"}
HostKeys == {"k", "x"}
HostAtoms ==
    {FromStr(s) : s \in HostStrings} \cup {VBoolean(b) : b \in BOOLEAN}
        \cup {FromNumber(NumberFrom("i64", n)) : n \in {-1, 0, 4}}
        \cup {FromNumber(NumberFrom("u64", n)) : n \in {0, 4}}

SeqsUpTo(S, n) == UNION {[1..k -> S] : k \in 0..n}
MapsOver(K, S) == UNION {[D -> S] : D \in SUBSET K}

\* the atoms, and the sequences and the string-keyed mappings of atoms
HostValues ==
    HostAtoms \cup {FromVec(a) : a \in SeqsUpTo(HostAtoms, MaxLen)}
        \cup {FromMap(m) : m \in MapsOver(HostKeys, HostAtoms)}

(***************************************************************************)
(* expr.rs: Expr, SimpleExpr, AnnotatedExpr.  An expression is a record    *)
(* tagged by e; "Object" is SimpleExpr::Object and "AnnotatedObject" is    *)
(* AnnotatedExpr::Object.  A query is the function it calls and its        *)
(* argument (query/delete.rs).                                             *)
(***************************************************************************)
EString(s) == [e |-> "String", s |-> s]
ENumber(num) == [e |-> "Number", num |-> num]
EBoolean(b) == [e |-> "Boolean", b |-> b]
ENull == [e |-> "Null"]
EArray(a) == [e |-> "Array", a |-> a]
EObject(o) == [e |-> "Object", o |-> o]
EAnnotatedObject(o) == [e |-> "AnnotatedObject", o |-> o]
EBytes(b) == [e |-> "Bytes", bytes |-> b]
EDate(d) == [e |-> "Date", date |-> d]
ETimestamp(t) == [e |-> "Timestamp", ts |-> t]
ERef(r) == [e |-> "Ref", ref |-> r]
ESet(matching, terms) == [e |-> "Set", matching |-> matching, terms |-> terms]
EQuote(x) == [e |-> "Quote", quoted |-> x]
EQuery(q) == [e |-> "Query", q |-> q]

\* Delete::instance(reference)
Delete(reference) == [fn |-> "delete", reference |-> ERef(reference)]

(***************************************************************************)
(* expr/object.rs: Object(BTreeMap<Cow<str>, Expr>).  The map is the       *)
(* sequence of its entries in iteration order, which is the order of the   *)
(* keys; str's order is tabulated on the keys the model uses.              *)
(***************************************************************************)
KeyOrder == <<"bar", "foo", "lol">>
KeyRank(k) == CHOOSE i \in 1..Len(KeyOrder) : KeyOrder[i] = k
KeyLess(a, b) == KeyRank(a) < KeyRank(b)

Entry(k, v) == [k |-> k, v |-> v]

\* Object::new
ObjectNew == <<>>

HasEntry(o, key) == \E i \in 1..Len(o) : o[i].k = key
\* the number of entries with a smaller key
Smaller(o, key) == Cardinality({i \in 1..Len(o) : KeyLess(o[i].k, key)})

\* an insert that keeps the entries in the order of arrival
ObjectInsertAppend(o, key, val) == Append(o, Entry(key, val))

\* Object::insert: BTreeMap::insert replaces the value of a key it holds
\* and puts a new key at its place in the order
ObjectInsert(o, key, val) ==
    IF HasEntry(o, key)
    THEN [i \in 1..Len(o) |-> IF o[i].k = key THEN Entry(key, val) ELSE o[i]]
    ELSE SubSeq(o, 1, Smaller(o, key)) \o <<Entry(key, val)>>
             \o SubSeq(o, Smaller(o, key) + 1, Len(o))

\* Object::len
ObjectLen(o) == Len(o)

\* the JSON object made of the entries es, written in this order
ValueAt(es, k) == es[CHOOSE i \in 1..Len(es) : es[i].k = k /\ \A j \in (i + 1)..Len(es) : es[j].k # k].v
MapOfEntries(es) == [k \in {es[i].k : i \in 1..Len(es)} |-> ValueAt(es, k)]

RECURSIVE ExprToJson(_)
\* derive(Serialize) of Object: serialize_map over the BTreeMap's iterator
SerializeMap(o) == [i \in 1..Len(o) |-> Entry(o[i].k, ExprToJson(o[i].v))]
ObjectToJson(o) == JObj(MapOfEntries(SerializeMap(o)))

\* derive(Serialize) of Expr / SimpleExpr / AnnotatedExpr, and Query's Serialize
ExprToJson(x) ==
    CASE x.e = "String" -> JStr(x.s)
      [] x.e = "Number" ->
           IF x.num.kind \in {"UInt", "Int"} THEN JInt(x.num.n) ELSE JFloat(x.num.n)
      [] x.e = "Boolean" -> JBool(x.b)
      [] x.e = "Null" -> JNull
      [] x.e = "Array" -> JArr([i \in DOMAIN x.a |-> ExprToJson(x.a[i])])
      [] x.e = "Object" -> ObjectToJson(x.o)
      [] x.e = "AnnotatedObject" -> JObj("object" :> ObjectToJson(x.o))
      [] x.e = "Bytes" -> JObj("@bytes" :> JStr(EncodeBytes(x.bytes)))
      [] x.e = "Date" -> JObj("@date" :> JStr(EncodeDate(x.date)))
      [] x.e = "Timestamp" -> JObj("@ts" :> JStr(EncodeTimestamp(x.ts)))
      [] x.e = "Ref" -> JObj("@ref" :> RefToJson(x.ref))
      [] x.e = "Set" ->
           JObj("@set" :> JObj(("match" :> ExprToJson(x.matching))
                                 @@ ("terms" :> ExprToJson(x.terms))))
      [] x.e = "Quote" -> JObj("@query" :> ExprToJson(x.quoted))
      [] x.e = "Query" -> JObj(x.q.fn :> ExprToJson(x.q.reference))

\* collect() into a BTreeMap: the entries are inserted one after the other
RECURSIVE CollectInto(_, _)
CollectInto(o, es) ==
    IF Len(es) = 0 THEN o
    ELSE CollectInto(ObjectInsert(o, es[1].k, es[1].v), Tail(es))

\* reuse that leaves the elements of an array as they are
RECURSIVE ReuseShallowArrays(_)
ReuseShallowArrays(x) ==
    CASE x.e \in {"Object", "AnnotatedObject"} ->
           EAnnotatedObject(CollectInto(ObjectNew,
               [i \in 1..Len(x.o) |-> Entry(x.o[i].k, ReuseShallowArrays(x.o[i].v))]))
      [] OTHER -> x

RECURSIVE ReuseLevelPerCall(_)
\* reuse that annotates a plain object without entering it, and enters only
\* what is annotated already
ReuseLevelPerCall(x) ==
    CASE x.e = "Object" -> EAnnotatedObject(x.o)
      [] x.e = "AnnotatedObject" ->
           EAnnotatedObject(CollectInto(ObjectNew,
               [i \in 1..Len(x.o) |-> Entry(x.o[i].k, ReuseLevelPerCall(x.o[i].v))]))
      [] x.e = "Array" -> EArray([i \in 1..Len(x.a) |-> ReuseLevelPerCall(x.a[i])])
      [] OTHER -> x

RECURSIVE Reuse(_)
\* Expr::reuse, with Object::reuse and Array::reuse: an object of either
\* kind becomes an annotated object of its reused values, an array the
\* array of its reused elements, anything else stays
Reuse(x) ==
    CASE x.e \in {"Object", "AnnotatedObject"} ->
           EAnnotatedObject(CollectInto(ObjectNew,
               [i \in 1..Len(x.o) |-> Entry(x.o[i].k, Reuse(x.o[i].v))]))
      [] x.e = "Array" -> EArray([i \in 1..Len(x.a) |-> Reuse(x.a[i])])
      [] OTHER -> x

\* Expr::as_quoted: the expression inside one more Quote
AsQuoted(x) == EQuote(x)

\* Expr::to_quoted: a Quote around a clone, the clone of a tree being the
\* tree again
ToQuoted(x) == EQuote(x)

RECURSIVE AsUnquotedDeep(_)
\* unquoting that removes every layer of quotes
AsUnquotedDeep(x) == IF x.e = "Quote" THEN AsUnquotedDeep(x.quoted) ELSE x

\* Expr::as_unquoted: what a Quote holds, anything else as it is
AsUnquoted(x) == IF x.e = "Quote" THEN x.quoted ELSE x

\* Expr::to_unquoted: the same on clones
ToUnquoted(x) == IF x.e = "Quote" THEN x.quoted ELSE x

\* expressions: one of every variant that reuse leaves alone, some of them
\* with a plain object inside
TestRef == [id |-> "1", location |-> NoLocation]
PlainInside == EObject(<<Entry("foo", ENull)>>)
Leaves ==
    { EString("a"), ENumber(Number("Int", -1)), EBoolean(TRUE), ENull,
      EBytes(<<1, 2>>), EDate([year |-> 2001, month |-> 5, day |-> 31]),
      ETimestamp([secs |-> 60, nanos |-> 0]), ERef(TestRef),
      ESet(ERef(TestRef), PlainInside), EQuote(PlainInside), EQuery(Delete(TestRef)) }

\* what arrays and objects are made of
Inner ==
    { EString("a"), ENull, EQuote(PlainInside),
      EObject(ObjectNew), PlainInside, EAnnotatedObject(<<Entry("lol", PlainInside)>>),
      EArray(<<>>), EArray(<<PlainInside, ENull>>) }

ObjectsOf(S) ==
    {<<>>} \cup {<<Entry(k, v)>> : k \in {"foo", "lol"}, v \in S}
        \cup {<<Entry("foo", v), Entry("lol", w)>> : v \in S, w \in S}

Exprs ==
    Leaves \cup {EArray(a) : a \in SeqsUpTo(Inner, MaxLen)}
        \cup {EObject(o) : o \in ObjectsOf(Inner)}
        \cup {EAnnotatedObject(o) : o \in ObjectsOf(Inner)}

\* what is inserted: val.into() of a &str and of a bool
InsertValues == {EString("bar"), EBoolean(FALSE), EBoolean(TRUE)}
InsertKeys == {KeyOrder[i] : i \in 1..Len(KeyOrder)}

(***************************************************************************)
(* The codec applied to one value at a time.                               *)
(***************************************************************************)
\* serde_json::to_value of a Value built from host data
Encode(val) ==
    /\ cell = NoCell
    /\ cell' = [op |-> "encoded", value |-> val, wire |-> ValueToJson(val)]

\* serde_json::from_value of what was encoded
Decode ==
    /\ cell.op = "encoded"
    /\ cell' = [op |-> "decoded", value |-> cell.value, wire |-> cell.wire,
                back |-> DecodeValue(cell.wire)]

\* what a server may send where a value is expected: each reserved key alone
\* with a payload of its kind, with a payload of another kind, and next to a
\* second key; and documents without a reserved key
ReservedKeys == AnnotationTags \cup {"object"}
RefDoc == JObj([id |-> JStr("1")])
WireDocs ==
    { JObj("@ref" :> RefDoc),
      JObj("@bytes" :> JStr(<<"A", "Q", "=", "=">>)),
      JObj("@date" :> JStr("2001-05-31")),
      JObj("@ts" :> JStr("1970-01-01T00:01:00Z")),
      JObj("@set" :> TestObject),
      JObj("@query" :> JNull),
      JObj("object" :> TestObject),
      JObj("@date" :> JStr("yesterday")),
      JObj("@ts" :> JInt(60)),
      JObj(("@ref" :> RefDoc) @@ ("ts" :> JInt(1))),
      JObj(("object" :> TestObject) @@ ("ts" :> JInt(1))),
      TestObject, JObj(EmptyMap), JArr(<<JObj("@query" :> JNull)>>), JInt(1), JNull }

\* serde_json::from_value::<Value> of a document of the wire
Receive(doc) ==
    /\ cell = NoCell
    /\ cell' = [op |-> "received", wire |-> doc, back |-> DecodeValue(doc)]

(***************************************************************************)
(* serde/ts_microseconds.rs: a timestamp given as microseconds since the   *)
(* epoch.  serde_json hands a non-negative integer to visit_u64 and a      *)
(* negative one to visit_i64.  Rust's / and % truncate towards zero, and   *)
(* `as u32` keeps the low 32 bits; a u32 is held as two 16-bit halves.     *)
(***************************************************************************)
MicrosPerSecond == 1000000
NanosPerMicro == 1000
Half == 65536
\* NaiveTime accepts nanoseconds below 2_000_000_000 (a leap second)
NanosLimit == [hi |-> 30517, lo |-> 37888]

TruncDiv(a, b) == IF a >= 0 THEN a \div b ELSE -((-a) \div b)
TruncRem(a, b) == a - (b * TruncDiv(a, b))

AsU32(x) == [hi |-> (x \div Half) % Half, lo |-> x % Half]
U32Less(a, b) == a.hi < b.hi \/ (a.hi = b.hi /\ a.lo < b.lo)
U32Value(a) == (a.hi * Half) + a.lo

\* Utc.timestamp_opt(secs, nsecs): LocalResult::Single or LocalResult::None
TimestampOpt(secs, nsecs) ==
    IF U32Less(nsecs, NanosLimit)
    THEN [local |-> "Single", val |-> [secs |-> secs, nanos |-> U32Value(nsecs)]]
    ELSE [local |-> "None"]

\* chrono_from: only LocalResult::Single is a value
ChronoFrom(me) == IF me.local = "Single" THEN Decoded(me.val) ELSE NotDecoded

VisitI64(value) ==
    ChronoFrom(TimestampOpt(TruncDiv(value, MicrosPerSecond),
                            AsU32(TruncRem(value, MicrosPerSecond) * NanosPerMicro)))

VisitU64(value) ==
    ChronoFrom(TimestampOpt(value \div MicrosPerSecond,
                            AsU32((value % MicrosPerSecond) * NanosPerMicro)))

\* ts_microseconds::deserialize: deserialize_i64 rejects what is no integer
DecodeMicros(x) ==
    CASE x.j = "int" /\ x.n >= 0 -> VisitU64(x.n)
      [] x.j = "int" /\ x.n < 0 -> VisitI64(x.n)
      [] OTHER -> NotDecoded

MicrosDocs ==
    {JInt(m) : m \in {0, 1, 60000000, 1500000, 2147483647,
                      -1, -1000000, -1500000, -2147483647}}
        \cup {JStr("1970-01-01T00:01:00Z"), JFloat("0.5"), JNull}

DecodeTs(doc) ==
    /\ cell = NoCell
    /\ cell' = [op |-> "micros", wire |-> doc, back |-> DecodeMicros(doc)]

\* octets and octet sequences: up to one full quad and a remainder
Octets == {0, 1, 2, 3, 4, 255}
ByteSeqs == SeqsUpTo(Octets, MaxLen + 2)

\* AnnotatedValue::Bytes(Bytes(b)), serialized with base64_bytes
EncodeBytesValue(b) ==
    /\ cell = NoCell
    /\ cell' = [op |-> "bytes", value |-> b, wire |-> ValueToJson(VAnnotated("Bytes", b))]

\* ... and what was serialized, deserialized
DecodeBytesValue ==
    /\ cell.op = "bytes"
    /\ cell' = [op |-> "bytes back", value |-> cell.value, wire |-> cell.wire,
                back |-> DecodeValue(cell.wire)]

\* Object::new()
NewObject ==
    /\ cell = NoCell
    /\ cell' = [op |-> "object", obj |-> ObjectNew, log |-> <<>>]

\* obj.insert(key, val); log keeps the calls made
Insert(key, val) ==
    /\ cell.op = "object"
    /\ Len(cell.log) <= MaxLen
    /\ cell' = [op |-> "object", obj |-> ObjectInsert(cell.obj, key, val),
                log |-> Append(cell.log, Entry(key, val))]

\* expr.reuse()
ReuseExpr(x) ==
    /\ cell = NoCell
    /\ cell' = [op |-> "reuse", expr |-> x, out |-> Reuse(x)]

\* expr.reuse().reuse()
ReuseAgain ==
    /\ cell.op = "reuse"
    /\ cell' = [op |-> "reuse again", expr |-> cell.expr, out |-> cell.out,
                again |-> Reuse(cell.out)]

\* references: the five constructors over two ids, and what one setter
\* makes of them; what arrives when such a reference was sent
RefIds == {"123", "Cats"}
Constructors == {"instance", "class", "index", "function", "database"}
Construct(ctor, id) ==
    CASE ctor = "instance" -> RefInstance(id)
      [] ctor = "class" -> RefClass(id)
      [] ctor = "index" -> RefIndex(id)
      [] ctor = "function" -> RefFunction(id)
      [] ctor = "database" -> RefDatabase(id)
Constructed == {Construct(ctor, id) : ctor \in Constructors, id \in RefIds}
BuiltRefs ==
    Constructed \cup {SetClass(r, c) : r \in Constructed, c \in RefIds}
        \cup {SetIndex(r, i) : r \in Constructed, i \in RefIds}
OtherRefs == BuiltRefs \cup {DecodeRef(RefToJson(r)).val : r \in BuiltRefs}

\* Ref::instance(id), Ref::class(id), ...
NewRef(ctor, id) ==
    /\ cell = NoCell
    /\ cell' = [op |-> "ref", made |-> ctor, id |-> id, ref |-> Construct(ctor, id),
                log |-> <<>>]

\* refer.set_class(c); log keeps the calls made
SetClassRef(c) ==
    /\ cell.op = "ref"
    /\ Len(cell.log) < MaxLen
    /\ cell' = [cell EXCEPT !.ref = SetClass(cell.ref, c),
                            !.log = Append(cell.log, [set |-> "class", id |-> c])]

\* refer.set_index(i)
SetIndexRef(i) ==
    /\ cell.op = "ref"
    /\ Len(cell.log) < MaxLen
    /\ cell' = [cell EXCEPT !.ref = SetIndex(cell.ref, i),
                            !.log = Append(cell.log, [set |-> "index", id |-> i])]

\* refer.path()
PathOfRef ==
    /\ cell.op = "ref"
    /\ cell' = [op |-> "ref path", made |-> cell.made, id |-> cell.id, ref |-> cell.ref,
                log |-> cell.log, path |-> Path(cell.ref)]

\* refer == other
CompareRef(other) ==
    /\ cell.op = "ref"
    /\ cell' = [op |-> "ref compared", ref |-> cell.ref, other |-> other,
                equal |-> RefEq(cell.ref, other)]

\* serde_json::to_value(&refer) and serde_json::from_value of the result
SendRef ==
    /\ cell.op = "ref"
    /\ cell' = [op |-> "ref sent", made |-> cell.made, ref |-> cell.ref, log |-> cell.log,
                wire |-> RefToJson(cell.ref), back |-> DecodeRef(RefToJson(cell.ref))]

\* String::try_from, Vec::try_from and BTreeMap::try_from of a value built
\* from host data or decoded from the wire
TryInto(val) ==
    /\ cell = NoCell
    /\ cell' = [op |-> "try", value |-> val, str |-> TryFromString(val),
                vec |-> TryFromVec(val), map |-> TryFromMap(val)]

(***************************************************************************)
(* query/write/create_database.rs and query/create_database.rs:            *)
(* DatabaseParams.  The priority is a u16.                                 *)
(***************************************************************************)
ErrRequestData(text) == [e |-> "RequestDataFailure", text |-> text]

\* DatabaseParams::new(name)
DatabaseParamsNew(name) ==
    [name |-> name, api_version |-> "2.0", data |-> None, priority |-> None]

\* priority that refuses 500 as well
PriorityBelowLimit(params, p) ==
    IF p = 0 \/ p >= 500
    THEN [res |-> Failed(ErrRequestData("Priority should be a number between 1 and 500")),
          params |-> params]
    ELSE [res |-> Ok("self"), params |-> [params EXCEPT !.priority = Some(p)]]

\* DatabaseParams::priority: the result, and the params after the call
Priority(params, p) ==
    IF p = 0 \/ p > 500
    THEN [res |-> Failed(ErrRequestData("Priority should be a number between 1 and 500")),
          params |-> params]
    ELSE [res |-> Ok("self"), params |-> [params EXCEPT !.priority = Some(p)]]

\* priorities: the ends of the accepted range, their neighbours, and the
\* ends of u16
Priorities == {0, 1, 10, 500, 501, 65535}

\* DatabaseParams::new("test")
NewParams ==
    /\ cell = NoCell
    /\ cell' = [op |-> "params", params |-> DatabaseParamsNew("test"), log |-> <<>>]

\* params.priority(p); log keeps the calls made, with the priority recorded
\* before the call and the result of the call
CallPriority(p) ==
    /\ cell.op = "params"
    /\ Len(cell.log) <= MaxLen
    /\ cell' = [op |-> "params", params |-> Priority(cell.params, p).params,
                log |-> Append(cell.log, [p |-> p, before |-> cell.params.priority,
                                          res |-> Priority(cell.params, p).res])]

\* Number::from of a host number
Convert(host, n) ==
    /\ cell = NoCell
    /\ cell' = [op |-> "number", host |-> host, n |-> n, number |-> NumberFrom(host, n)]

\* e.to_quoted() and then e.as_quoted(); expr is e after the borrowing call
QuoteExpr(x) ==
    /\ cell = NoCell
    /\ cell' = [op |-> "quote", expr |-> x, cloned |-> ToQuoted(x), quoted |-> AsQuoted(x)]

\* q.to_unquoted() and then q.as_unquoted() of the quoted expression q, and
\* the same of the expression itself
UnquoteExpr ==
    /\ cell.op = "quote"
    /\ cell' = [op |-> "unquote", expr |-> cell.expr, cloned |-> cell.cloned,
                quoted |-> cell.quoted,
                back |-> AsUnquoted(cell.quoted), backCloned |-> ToUnquoted(cell.quoted),
                bare |-> AsUnquoted(cell.expr), bareCloned |-> ToUnquoted(cell.expr)]

CodecNext ==
    /\ \/ \E val \in HostValues : Encode(val)
       \/ Decode
       \/ \E x \in Exprs : ReuseExpr(x)
       \/ ReuseAgain
       \/ \E x \in Exprs : QuoteExpr(x)
       \/ UnquoteExpr
       \/ \E ctor \in Constructors, id \in RefIds : NewRef(ctor, id)
       \/ \E c \in RefIds : SetClassRef(c)
       \/ \E i \in RefIds : SetIndexRef(i)
       \/ PathOfRef
       \/ \E other \in OtherRefs : CompareRef(other)
       \/ SendRef
       \/ \E val \in HostValues \cup {DecodeValue(doc) : doc \in WireDocs} : TryInto(val)
       \/ NewObject
       \/ \E key \in InsertKeys, val \in InsertValues : Insert(key, val)
       \/ \E b \in ByteSeqs : EncodeBytesValue(b)
       \/ DecodeBytesValue
       \/ NewParams
       \/ \E p \in Priorities : CallPriority(p)
       \/ \E doc \in MicrosDocs : DecodeTs(doc)
       \/ \E doc \in WireDocs : Receive(doc)
       \/ \E host \in SignedTypes \cup UnsignedTypes \cup FloatTypes :
             \E n \in HostRange(host) : Convert(host, n)
    /\ UNCHANGED <<pipeline, builder, client, lock>>

CodecSpec == OneClient /\ [][CodecNext]_vars

(***************************************************************************)
(* client.rs: ClientBuilder, one call at a time.  build() creates the TLS  *)
(* connector, which the platform may refuse, and parses the uri text; an   *)
(* error of either is returned by `?`, the connector's first.              *)
(***************************************************************************)
ErrConfiguration == [e |-> "ConfigurationError"]

\* texts http::Uri does not parse: the empty text, and one with a space
InvalidUris == {"", "db fauna"}
BuilderUris == Uris \cup InvalidUris
BuilderTimeouts == {0, 30, DefaultTimeout}

\* self.uri.parse(): the Uri holds the text it was parsed from
ParseUri(text) == IF text \in InvalidUris THEN Failed(ErrConfiguration) ELSE Ok(text)

\* ClientBuilder::build
TryBuild(b, tls) ==
    CASE ~tls -> Failed(ErrConnection)
      [] tls /\ ~ParseUri(b.uri).ok -> ParseUri(b.uri)
      [] OTHER -> Ok(Build(b))

\* ClientBuilder::new(secret)
NewBuilder(secret) ==
    /\ cell = NoCell
    /\ builder' = Builder(secret)
    /\ cell' = [op |-> "builder", secret |-> secret, log |-> <<>>]
    /\ UNCHANGED client

\* builder.uri(uri); log keeps the calls made
SetUri(uri) ==
    /\ cell.op = "builder"
    /\ Len(cell.log) <= MaxLen
    /\ builder' = BuilderUri(builder, uri)
    /\ cell' = [cell EXCEPT !.log = Append(cell.log, [set |-> "uri", uri |-> uri])]
    /\ UNCHANGED client

\* builder.timeout(Duration::new(timeout, 0))
SetTimeout(timeout) ==
    /\ cell.op = "builder"
    /\ Len(cell.log) <= MaxLen
    /\ builder' = BuilderTimeout(builder, timeout)
    /\ cell' = [cell EXCEPT !.log = Append(cell.log, [set |-> "timeout", timeout |-> timeout])]
    /\ UNCHANGED client

\* builder.build(), the connector created (tls) or refused; the builder is
\* consumed, and a client built replaces the one held
BuildClient(tls) ==
    /\ cell.op = "builder"
    /\ cell' = [op |-> "built", secret |-> cell.secret, log |-> cell.log, tls |-> tls,
                res |-> TryBuild(builder, tls)]
    /\ client' = IF TryBuild(builder, tls).ok THEN TryBuild(builder, tls).val ELSE client
    /\ UNCHANGED builder

BuilderNext ==
    /\ \/ \E secret \in Secrets : NewBuilder(secret)
       \/ \E uri \in BuilderUris : SetUri(uri)
       \/ \E timeout \in BuilderTimeouts : SetTimeout(timeout)
       \/ \E tls \in BOOLEAN : BuildClient(tls)
    /\ UNCHANGED <<pipeline, lock>>

BuilderSpec == OneClient /\ [][BuilderNext]_vars

TypeOK ==
    \A q \in Queries :
        /\ pc[q] \in {"Idle", "Panicked"} \cup Running \cup Terminal
        /\ submitted[q] \in 0..1
        /\ tr[q].chunks \in 0..MaxChunks

(***************************************************************************)
(* Properties                                                              *)
(***************************************************************************)
Err(e) == [r |-> "Err", error |-> e]
Ended(q) == pc[q] \notin {"Idle"} \cup Running
\* the future consumed the whole response of the transport
Consumed(q) == bodyRead[q] # NoBody
BodyExpected(st) == IsSuccess(st) \/ st \in {400, 404}

\* C1: a query whose timeout elapsed while the transport had not delivered
\* the complete response ends with the TimeoutError error and nothing else.
C1_TimeoutYieldsTimeoutError ==
    \A q \in Queries :
        (Ended(q) /\ timer[q] = "elapsed" /\ tr[q].stage # "complete")
            => (pc[q] \in Terminal /\ result[q] = Err(ErrTimeout))

\* C2: a query goes Built -> Sent -> one of Succeeded, Failed, TimedOut and
\* is in no other state; a terminal state and its result are never left; the
\* request is submitted at most once, and before any terminal state.
C2_StateMachine ==
    [][\A q \in Queries :
          /\ pc'[q] \in {"Idle"} \cup Running \cup Terminal
          /\ (pc[q] = "Idle" => pc'[q] \in {"Idle", "Built"})
          /\ (pc[q] \in Terminal => (pc'[q] = pc[q] /\ result'[q] = result[q]))
          /\ (pc'[q] \in {"Idle", "Built"} => submitted'[q] = 0)
          /\ (pc'[q] \in {"Sent"} \cup Terminal => submitted'[q] = 1)
          /\ submitted'[q] >= submitted[q]]_vars

\* C3: every issued query eventually reaches a terminal state.
C3_EventuallyTerminal ==
    \A q \in Queries : (pc[q] = "Built") ~> (pc[q] \in Terminal)

\* C4: a query never aborts; once it has ended it carries either a response
\* with a resource or one Error, and no result before.
C4_OneResultNoPanic ==
    \A q \in Queries :
        /\ pc[q] # "Panicked"
        /\ (pc[q] = "Succeeded" => result[q].r = "Ok")
        /\ (pc[q] \in {"Failed", "TimedOut"} => result[q].r = "Err")
        /\ (~Ended(q) => result[q] = NoResult)

\* C5: a received response with status 401 yields Unauthorized whatever its
\* body is.
C5_UnauthorizedAnyBody ==
    \A q \in Queries :
        (Consumed(q) /\ status[q] = 401)
            => (pc[q] = "Failed" /\ result[q] = Err(ErrUnauthorized))

\* C6 as stated: a received response whose status is none of 2xx, 400, 401,
\* 404 yields DatabaseError carrying the body.
C6_OtherStatusDatabaseError ==
    \A q \in Queries :
        (Consumed(q) /\ ~BodyExpected(status[q]) /\ status[q] # 401)
            => (pc[q] = "Failed" /\ result[q] = Err(ErrDatabase(bodyRead[q])))

\* C6 amended: a received response whose status is none of 2xx, 400, 401,
\* 404 and whose body is valid UTF-8 yields DatabaseError carrying the body
\* text unchanged, whether or not the text is JSON; a body that is not
\* UTF-8 yields EmptyResponse.
C6_OtherStatusUtf8DatabaseError ==
    \A q \in Queries :
        (Consumed(q) /\ ~BodyExpected(status[q]) /\ status[q] # 401)
            => /\ pc[q] = "Failed"
               /\ bodyRead[q].utf8 => result[q] = Err(ErrDatabase(bodyRead[q]))
               /\ ~bodyRead[q].utf8 => result[q] = Err(ErrEmptyResponse)

C6_Witness ==
    \E q \in Queries :
        /\ status[q] = 500
        /\ bodyRead[q] = PlainText("<html>")
        /\ result[q] = Err(ErrDatabase(PlainText("<html>")))

\* a JSON document of the error-list shape
IsErrorList(x) ==
    /\ HasKey(x, "errors")
    /\ x.o["errors"].j = "arr"
    /\ \A i \in DOMAIN x.o["errors"].a :
         LET e == x.o["errors"].a[i]
         IN /\ IsObj(e)
            /\ {"position", "code", "description"} \subseteq DOMAIN e.o
            /\ e.o["position"].j = "arr"
            /\ e.o["code"].j = "str"
            /\ e.o["description"].j = "str"

\* C7: a received 400 (404) response whose body is an error list yields
\* BadRequest (NotFound) with as many errors as sent, in the order sent, each
\* with the code, the description and the position sent.
C7_ErrorListCarried ==
    \A q \in Queries :
        (Consumed(q) /\ status[q] \in {400, 404} /\ bodyRead[q].utf8
           /\ bodyRead[q].doc # <<>> /\ IsErrorList(bodyRead[q].doc[1]))
            => LET sent == bodyRead[q].doc[1].o["errors"].a
                   got == result[q].error.errors
               IN /\ pc[q] = "Failed"
                  /\ result[q].r = "Err"
                  /\ result[q].error.e = IF status[q] = 400 THEN "BadRequest" ELSE "NotFound"
                  /\ Len(got) = Len(sent)
                  /\ \A i \in 1..Len(sent) :
                       /\ got[i].code = sent[i].o["code"].s
                       /\ got[i].description = sent[i].o["description"].s
                       /\ Len(got[i].position) = Len(sent[i].o["position"].a)
                       /\ \A k \in 1..Len(got[i].position) :
                            ValueToJson(got[i].position[k]) = sent[i].o["position"].a[k]

C7_Witness ==
    \E q \in Queries :
        /\ status[q] = 404
        /\ result[q].r = "Err"
        /\ result[q].error.e = "NotFound"
        /\ Len(result[q].error.errors) = 2
        /\ result[q].error.errors[1].code = "not found"
        /\ Len(result[q].error.errors[1].position) = 2

\* C8: a received response of status 2xx, 400 or 404 whose body is empty or
\* is not UTF-8 fails with EmptyResponse.
C8_EmptyBodyEmptyResponse ==
    \A q \in Queries :
        (Consumed(q) /\ BodyExpected(status[q]) /\ bodyRead[q] \in {EmptyBody, NonUtf8Body})
            => (pc[q] = "Failed" /\ result[q] = Err(ErrEmptyResponse))

\* C9: a received 2xx response whose body is {"resource": {"object": M}}
\* succeeds with a resource that is the Object of the entries of M.
C9_ObjectResource ==
    \A q \in Queries :
        (Consumed(q) /\ IsSuccess(status[q]) /\ bodyRead[q].utf8
           /\ bodyRead[q].doc # <<>>
           /\ HasKey(bodyRead[q].doc[1], "resource")
           /\ DOMAIN bodyRead[q].doc[1].o = {"resource"}
           /\ HasKey(bodyRead[q].doc[1].o["resource"], "object")
           /\ DOMAIN bodyRead[q].doc[1].o["resource"].o = {"object"}
           /\ IsObj(bodyRead[q].doc[1].o["resource"].o["object"]))
            => LET m == bodyRead[q].doc[1].o["resource"].o["object"].o
               IN /\ pc[q] = "Succeeded"
                  /\ result[q].r = "Ok"
                  /\ result[q].response.resource.v = "Object"
                  /\ DOMAIN result[q].response.resource.o = DOMAIN m
                  /\ \A k \in DOMAIN m :
                       ValueToJson(result[q].response.resource.o[k]) = m[k]

StatusDerived == {"Unauthorized", "BadRequest", "NotFound", "DatabaseError"}

\* C10: an outcome chosen from the HTTP status (a success, Unauthorized,
\* BadRequest, NotFound, DatabaseError) exists only once the request was
\* submitted and the transport has delivered the whole body, which is the
\* body the outcome was chosen on.
C10_OutcomeAfterFullBody ==
    \A q \in Queries :
        (result[q].r = "Ok" \/ (result[q].r = "Err" /\ result[q].error.e \in StatusDerived))
            => /\ submitted[q] = 1
               /\ tr[q].stage = "complete"
               /\ status[q] = tr[q].status
               /\ bodyRead[q] = tr[q].body

C10_Witness ==
    \E q \in Queries :
        /\ result[q] = Err(ErrUnauthorized)
        /\ tr[q].chunks >= 1
        /\ tr[q].stage = "complete"


\* C11: through one SyncClient at most one query is in flight at any time,
\* and a query is started only when no other query is still running.
C11_OneQueryInFlight ==
    /\ Cardinality({q \in Queries : pc[q] \in Running}) <= 1
    /\ \A q \in Queries : pc[q] \in Running => lock = q

\* a second caller runs its query after the first one has completed
C11_Witness ==
    \E q1, q2 \in Queries :
        /\ q1 # q2
        /\ pc[q1] \in Terminal
        /\ pc[q2] = "Sent"
        /\ tr[q2].stage = "headers"

\* everything the pipeline holds for query q, now and after the step
Part(q) ==
    <<pc[q], tr[q], timer[q], submitted[q], status[q], bodyRead[q], request[q], result[q]>>
PartAfter(q) ==
    <<pc'[q], tr'[q], timer'[q], submitted'[q], status'[q], bodyRead'[q], request'[q],
      result'[q]>>

\* the state and the result of q after the step are those of the poll out
AfterPoll(q, out) ==
    /\ pc'[q] = StateAfter(out)
    /\ result'[q] = ResultOf(out)

BasicOf(secret) == IF secret = ClientSecret THEN "Basic c2VjcmV0Og==" ELSE "Basic azo="

\* the request is the one the claim describes for the configuration b
RequestAsConfigured(req, b) ==
    /\ req.method = "POST"
    /\ req.uri = b.uri
    /\ req.body \in QueryPayloads
    /\ req.content_length = Len(req.body)
    /\ req.content_type = "application/json"
    /\ req.api_version = "2.1"
    /\ TextOf(req.authorization) = BasicOf(b.secret)

\* C13: every request built is a POST to the uri configured at build time,
\* with Content-Length the length of the serialized query, Content-Type
\* application/json, X-FaunaDB-API-Version 2.1 and Authorization "Basic "
\* followed by base64(secret ":"); no step changes the client.
C13_RequestInvariant ==
    [][/\ client' = client
       /\ client'.uri = builder.uri /\ client'.timeout = builder.timeout
       /\ \A q \in Queries :
            request'[q] # NoRequest => RequestAsConfigured(request'[q], builder)]_vars

\* the second query was built after the first one had ended, on a client
\* configured with its own uri and secret
C13_Witness ==
    \E q1, q2 \in Queries :
        /\ pc[q1] \in Terminal
        /\ pc[q2] = "Built"
        /\ request[q2].uri = LocalUri
        /\ request[q2].content_length = 13
        /\ request[q1].content_length = 4

\* C14: decoding the encoding of a value built from host data gives the
\* value back, its variant included.
C14_RoundTrip ==
    cell.op = "decoded" => cell.back = cell.value

\* C16: a signed host integer becomes Int and an unsigned one UInt, with the
\* same numeric value, and each accessor answers for its own variant only.
C16_NumericPolicy ==
    cell.op = "number" =>
        /\ cell.host \in SignedTypes => cell.number = Number("Int", cell.n)
        /\ cell.host \in UnsignedTypes => cell.number = Number("UInt", cell.n)
        /\ AsU64(cell.number) = IF cell.host \in UnsignedTypes THEN Some(cell.n) ELSE None
        /\ AsI64(cell.number) = IF cell.host \in SignedTypes THEN Some(cell.n) ELSE None
        /\ AsF64(cell.number) = IF cell.host = "f64" THEN Some(cell.n) ELSE None
        /\ AsF32(cell.number) = IF cell.host = "f32" THEN Some(cell.n) ELSE None
        /\ IsU64(cell.number) = (cell.host \in UnsignedTypes)
        /\ IsI64(cell.number) = (cell.host \in SignedTypes)

\* the unsigned 4 was converted: as_i64 of UInt(4) is None
C16_Witness ==
    /\ cell.op = "number"
    /\ cell.number = Number("UInt", 4)
    /\ AsI64(cell.number) = None
    /\ AsU64(cell.number) = Some(4)

\* the annotated variant a reserved key stands for
VariantOfKey(k) ==
    CASE k = "@ref" -> "Ref"
      [] k = "@bytes" -> "Bytes"
      [] k = "@date" -> "Date"
      [] k = "@set" -> "Set"
      [] k = "@ts" -> "Timestamp"
      [] k = "@query" -> "Query"
      [] k = "object" -> "AnnotatedObject"

\* C15: a JSON object with a reserved key at its top level is decoded as the
\* annotated variant of that key, never as a plain Object.
C15_DecodePriority ==
    cell.op = "received" =>
        \A k \in ReservedKeys :
            HasKey(cell.wire, k) => cell.back.v = VariantOfKey(k)

\* the instant lies m microseconds from the epoch
MicrosFromEpoch(instant, m) ==
    /\ instant.nanos \in 0..999999999
    /\ instant.nanos % 1000 = 0
    /\ (instant.secs * 1000000) + (instant.nanos \div 1000) = m

\* C17: an integer m of microseconds decodes to the instant m microseconds
\* from the epoch, negative m and m within a second included (every m drawn
\* has a calendar representation); what is no integer is a decode error.
C17_MicrosecondsDecode ==
    cell.op = "micros" =>
        IF cell.wire.j = "int"
        THEN cell.back.ok /\ MicrosFromEpoch(cell.back.val, cell.wire.n)
        ELSE ~cell.back.ok

\* padded base64 texts worked out by hand
KnownBase64 ==
    (<<>> :> "") @@ (<<1, 2, 3, 4>> :> "AQIDBA==") @@ (<<255>> :> "/w==")
        @@ (<<255, 255>> :> "//8=") @@ (<<0, 0, 0>> :> "AAAA") @@ (<<0, 1, 2>> :> "AAEC")

\* cs has the shape of the padded base64 text of n octets
PaddedShape(cs, n) ==
    /\ Len(cs) = 4 * ((n + 2) \div 3)
    /\ \A i \in 1..Len(cs) :
         IF i > Len(cs) - ((3 - (n % 3)) % 3)
         THEN cs[i] = "="
         ELSE cs[i] # "=" /\ IsBase64Symbol(cs[i])

\* C18: a byte sequence b is encoded as {"@bytes": s} with s the padded
\* base64 text of b, and decoding that object gives Bytes holding b.
C18_BytesRoundTrip ==
    cell.op = "bytes back" =>
        /\ DOMAIN cell.wire.o = {"@bytes"}
        /\ cell.wire.o["@bytes"].j = "str"
        /\ PaddedShape(cell.wire.o["@bytes"].s, Len(cell.value))
        /\ cell.value \in DOMAIN KnownBase64 =>
              TextOf(cell.wire.o["@bytes"].s) = KnownBase64[cell.value]
        /\ cell.back = VAnnotated("Bytes", cell.value)

\* the octets 01 02 03 04 went out as "AQIDBA==" and came back
C18_Witness ==
    /\ cell.op = "bytes back"
    /\ cell.value = <<1, 2, 3, 4>>
    /\ TextOf(cell.wire.o["@bytes"].s) = "AQIDBA=="
    /\ cell.back.p = <<1, 2, 3, 4>>

\* the keys inserted by the calls of log, and the value of the last call for k
LogKeys(log) == {log[i].k : i \in 1..Len(log)}
LastInserted(log, k) ==
    log[CHOOSE i \in 1..Len(log) : log[i].k = k /\ \A j \in (i + 1)..Len(log) : log[j].k # k].v

\* the entries of the wire encoding w come in ascending key order
Ascending(w) ==
    \A i, j \in 1..Len(w) :
        i < j => <<w[i].k, w[j].k>> \in {<<"bar", "foo">>, <<"bar", "lol">>, <<"foo", "lol">>}

\* C19: after any sequence of inserts the object has one entry per distinct
\* key, with the value of the last insert of that key, len() is the number of
\* distinct keys, and the encoding lists the entries in ascending key order.
C19_ObjectInsert ==
    cell.op = "object" =>
        /\ ObjectLen(cell.obj) = Cardinality(LogKeys(cell.log))
        /\ \A k \in LogKeys(cell.log) :
             /\ Cardinality({i \in 1..Len(cell.obj) : cell.obj[i].k = k}) = 1
             /\ \A i \in 1..Len(cell.obj) :
                  cell.obj[i].k = k => cell.obj[i].v = LastInserted(cell.log, k)
        /\ Len(SerializeMap(cell.obj)) = Cardinality(LogKeys(cell.log))
        /\ Ascending(SerializeMap(cell.obj))
        /\ \A i \in 1..Len(cell.obj) :
             SerializeMap(cell.obj)[i].v = ExprToJson(LastInserted(cell.log, SerializeMap(cell.obj)[i].k))

\* "lol" was inserted before "foo" and once more after it
C19_Witness ==
    /\ cell.op = "object"
    /\ cell.log = <<Entry("lol", EBoolean(TRUE)), Entry("foo", EString("bar")),
                    Entry("lol", EBoolean(FALSE))>>
    /\ cell.obj = <<Entry("foo", EString("bar")), Entry("lol", EBoolean(FALSE))>>
    /\ ExprToJson(EAnnotatedObject(cell.obj))
         = JObj("object" :> JObj([foo |-> JStr("bar"), lol |-> JBool(FALSE)]))

RECURSIVE NoPlainObject(_)
\* no un-annotated object in x, looking through arrays and objects
NoPlainObject(x) ==
    CASE x.e = "Object" -> FALSE
      [] x.e = "AnnotatedObject" -> \A i \in 1..Len(x.o) : NoPlainObject(x.o[i].v)
      [] x.e = "Array" -> \A i \in 1..Len(x.a) : NoPlainObject(x.a[i])
      [] OTHER -> TRUE

RECURSIVE Reannotated(_, _)
\* y is x with its objects annotated: arrays keep their length and order,
\* objects their keys, everything else is the same
Reannotated(x, y) ==
    CASE x.e \in {"Object", "AnnotatedObject"} ->
           /\ y.e = "AnnotatedObject"
           /\ Len(y.o) = Len(x.o)
           /\ \A i \in 1..Len(x.o) : y.o[i].k = x.o[i].k /\ Reannotated(x.o[i].v, y.o[i].v)
      [] x.e = "Array" ->
           /\ y.e = "Array"
           /\ Len(y.a) = Len(x.a)
           /\ \A i \in 1..Len(x.a) : Reannotated(x.a[i], y.a[i])
      [] OTHER -> y = x

\* C20: reuse() turns every un-annotated object into an annotated one, through
\* array elements and object values; arrays keep their length and order and
\* objects their keys; every other variant comes back unchanged.
C20_ReuseReannotates ==
    cell.op = "reuse" =>
        /\ NoPlainObject(cell.out)
        /\ Reannotated(cell.expr, cell.out)

\* an array with a plain object in an array in it was reused; the object
\* quoted next to it stayed plain
C20_Witness ==
    /\ cell.op = "reuse"
    /\ cell.expr = EArray(<<EArray(<<PlainInside, ENull>>), EQuote(PlainInside)>>)
    /\ cell.out = EArray(<<EArray(<<EAnnotatedObject(<<Entry("foo", ENull)>>), ENull>>),
                           EQuote(PlainInside)>>)

(***************************************************************************)
(* C21  Unquoting reverses quoting: as_unquoted(as_quoted(e)) is e, also   *)
(* when e is itself a Quote (one layer is removed); as_unquoted of an      *)
(* expression that is no Quote is that expression; to_quoted and           *)
(* to_unquoted give what as_quoted and as_unquoted give.                   *)
(***************************************************************************)
C21_UnquoteReversesQuote ==
    cell.op = "unquote" =>
        /\ cell.back = cell.expr
        /\ cell.expr.e # "Quote" => cell.bare = cell.expr
        /\ cell.expr.e = "Quote" => cell.bare = cell.expr.quoted
        /\ cell.cloned = cell.quoted
        /\ cell.backCloned = cell.back
        /\ cell.bareCloned = cell.bare

\* a Quote was quoted and unquoted again
C21_Witness ==
    /\ cell.op = "unquote"
    /\ cell.expr.e = "Quote"
    /\ cell.quoted.quoted = cell.expr
    /\ cell.back = cell.expr

(***************************************************************************)
(* C29  reuse() is idempotent: reusing what reuse() returned returns it    *)
(* again.                                                                  *)
(***************************************************************************)
C29_ReuseIdempotent == cell.op = "reuse again" => cell.again = cell.out

\* reuse changed an expression with an object nested in an object, and the
\* second reuse changed nothing more
C29_Witness ==
    /\ cell.op = "reuse again"
    /\ cell.expr.e = "Object"
    /\ \E i \in 1..Len(cell.expr.o) : cell.expr.o[i].v.e = "Object"
    /\ cell.out # cell.expr
    /\ cell.again = cell.out

\* the ids of a reference and of the references it is located in, outermost
\* first
RECURSIVE Ids(_)
Ids(r) == IF r.location.kind = "None" THEN <<r.id>> ELSE Append(Ids(r.location.location), r.id)

\* a sequence of texts joined by "/"
RECURSIVE Joined(_)
Joined(w) == IF Len(w) = 1 THEN w[1] ELSE w[1] \o "/" \o Joined(Tail(w))

\* the collection a constructor puts its reference in
CollectionOf(ctor) ==
    CASE ctor = "class" -> "classes"
      [] ctor = "index" -> "indexes"
      [] ctor = "function" -> "functions"
      [] ctor = "database" -> "databases"

(***************************************************************************)
(* C22  path() is the path of the location, "/" and the id when there is a *)
(* location, and the id otherwise: instance(id) gives id, class(id) gives  *)
(* "classes/" + id, and likewise "indexes/", "databases/", "functions/";   *)
(* id "123" located in class "Cats" gives "classes/Cats/123".  path()      *)
(* ends for every reference the constructors and setters build.            *)
(***************************************************************************)
C22_PathResolution ==
    cell.op = "ref path" =>
        /\ cell.path = Joined(Ids(cell.ref))
        /\ cell.log = <<>> /\ cell.made = "instance" => cell.path = cell.id
        /\ cell.log = <<>> /\ cell.made # "instance" =>
               cell.path = CollectionOf(cell.made) \o "/" \o cell.id
        /\ cell.id = "123" /\ cell.log # <<>>
             /\ cell.log[Len(cell.log)] = [set |-> "class", id |-> "Cats"] =>
               cell.path = "classes/Cats/123"

\* the path of id "123" in class "Cats" was taken
C22_Witness ==
    /\ cell.op = "ref path"
    /\ cell.made = "instance" /\ cell.id = "123"
    /\ cell.log = <<[set |-> "class", id |-> "Cats"]>>
    /\ cell.path = "classes/Cats/123"

\* the location the setter call made puts a reference in
LocationSet(call) ==
    IF call.set = "class" THEN Located("Class", RefClass(call.id))
    ELSE Located("Index", RefIndex(call.id))

(***************************************************************************)
(* C23  set_class(c) and set_index(i) leave the id and replace the         *)
(* location by class(c), respectively index(i): after any sequence of      *)
(* calls the location is the one of the last call, and after set_class(a)  *)
(* and set_index(b) the path is "indexes/b/" + id.                         *)
(***************************************************************************)
C23_SettersReplaceLocation ==
    cell.op \in {"ref", "ref path"} /\ cell.log # <<>> =>
        /\ cell.ref.id = cell.id
        /\ cell.ref.location = LocationSet(cell.log[Len(cell.log)])
        /\ cell.op = "ref path" /\ cell.log[Len(cell.log)].set = "index" =>
               cell.path = "indexes/" \o cell.log[Len(cell.log)].id \o "/" \o cell.id

\* set_class and then set_index on a class reference, and its path
C23_Witness ==
    /\ cell.op = "ref path"
    /\ cell.made = "class" /\ cell.id = "123"
    /\ cell.log = <<[set |-> "class", id |-> "123"], [set |-> "index", id |-> "Cats"]>>
    /\ cell.path = "indexes/Cats/123"

\* a reference laid out level by level: its id and the kind of its location,
\* then the same of the reference it is located in
RECURSIVE Chain(_)
Chain(r) ==
    IF r.location.kind = "None" THEN <<[id |-> r.id, kind |-> "None"]>>
    ELSE <<[id |-> r.id, kind |-> r.location.kind]>> \o Chain(r.location.location)

(***************************************************************************)
(* C24  Two references are equal if and only if they have the same id and  *)
(* their location chains match: the same kind of location and an equal     *)
(* nested reference at every level, or no location on both sides.          *)
(***************************************************************************)
C24_RefEquality ==
    cell.op = "ref compared" => (cell.equal <=> Chain(cell.ref) = Chain(cell.other))

\* two references alike but for the kind of their location were compared
C24_Witness ==
    /\ cell.op = "ref compared"
    /\ ~cell.equal
    /\ Ids(cell.ref) = Ids(cell.other)
    /\ cell.ref.location.kind = "Database" /\ cell.other.location.kind = "Class"

(***************************************************************************)
(* C27  Decoding the wire encoding of a reference built with instance,     *)
(* class, index, database, function, set_class or set_index gives a        *)
(* reference equal to it: the same id and the same kind of location at     *)
(* every level.                                                            *)
(***************************************************************************)
C27_RefRoundTrip ==
    cell.op = "ref sent" => cell.back.ok /\ RefEq(cell.back.val, cell.ref)

\* what a conversion answers: the data of the variant named, or the error
\* with the text given
Converts(res, val, variant, data, text) ==
    /\ res.ok <=> val.v = variant
    /\ res.ok => res.val = data
    /\ ~res.ok => res.err = [e |-> "ConversionError", text |-> text]

(***************************************************************************)
(* C25  TryFrom<Value> for String, Vec<Value> and BTreeMap<String, Value>  *)
(* succeeds, with the data the value holds, exactly when the value is the  *)
(* String, Array, respectively Object variant; otherwise it fails with     *)
(* ConversionError "Value is not a String", "Value is not an Array",       *)
(* "Value is not an Object".                                               *)
(***************************************************************************)
C25_PartialConversion ==
    cell.op = "try" =>
        /\ Converts(cell.str, cell.value, "String",
                    IF cell.value.v = "String" THEN cell.value.s ELSE "", "Value is not a String")
        /\ Converts(cell.vec, cell.value, "Array",
                    IF cell.value.v = "Array" THEN cell.value.a ELSE <<>>, "Value is not an Array")
        /\ Converts(cell.map, cell.value, "Object",
                    IF cell.value.v = "Object" THEN cell.value.o ELSE <<>>, "Value is not an Object")

\* an annotated value was refused by all three conversions
C25_Witness ==
    /\ cell.op = "try"
    /\ cell.value.v = "Ref"
    /\ ~cell.str.ok /\ ~cell.vec.ok /\ ~cell.map.ok
    /\ cell.map.err.text = "Value is not an Object"

\* the last call of a log
Last(log) == log[Len(log)]

(***************************************************************************)
(* C30  DatabaseParams::priority(p) succeeds and records p exactly when    *)
(* 1 <= p <= 500; for p = 0 or p > 500 it returns RequestDataFailure and   *)
(* leaves the params as they were, a priority recorded earlier included.   *)
(***************************************************************************)
C30_PriorityRange ==
    cell.op = "params" /\ cell.log # <<>> =>
        /\ Last(cell.log).res.ok <=> (1 <= Last(cell.log).p /\ Last(cell.log).p <= 500)
        /\ Last(cell.log).res.ok => cell.params.priority = [some |-> TRUE, val |-> Last(cell.log).p]
        /\ ~Last(cell.log).res.ok =>
              /\ Last(cell.log).res.err.e = "RequestDataFailure"
              /\ cell.params.priority = Last(cell.log).before
        /\ cell.params.name = "test" /\ cell.params.api_version = "2.0"
        /\ cell.params.data = [some |-> FALSE]

\* priority 500 was recorded and a later priority 501 was refused
C30_Witness ==
    /\ cell.op = "params"
    /\ Len(cell.log) = 2
    /\ cell.log[1].p = 500 /\ cell.log[1].res.ok
    /\ cell.log[2].p = 501 /\ ~cell.log[2].res.ok
    /\ cell.params.priority = [some |-> TRUE, val |-> 500]

(***************************************************************************)
(* C28  The synchronous wrapper never locks callers out: once a query      *)
(* through a SyncClient has ended, whatever its outcome, the lock is free  *)
(* again: it is held only while its holder's query is under way, and it    *)
(* is never left in a state no caller can take it from.                    *)
(***************************************************************************)
C28_LockFreedAfterQuery ==
    /\ lock # "poisoned"
    /\ \A q \in Queries : lock = q => pc[q] \in Running \cup Terminal \cup {"Panicked"}

\* the calls of a log that set the uri, respectively the timeout
UriCalls(log) == {i \in 1..Len(log) : log[i].set = "uri"}
TimeoutCalls(log) == {i \in 1..Len(log) : log[i].set = "timeout"}
Latest(calls) == CHOOSE i \in calls : \A j \in calls : j <= i

\* the uri and the timeout a log of calls leaves: the last one set, or the
\* default
UriSet(log) ==
    IF UriCalls(log) = {} THEN "https://db.fauna.com" ELSE log[Latest(UriCalls(log))].uri
TimeoutSet(log) ==
    IF TimeoutCalls(log) = {} THEN 60 ELSE log[Latest(TimeoutCalls(log))].timeout

\* the builder holds what the calls made of it
Configured ==
    /\ builder.uri = UriSet(cell.log)
    /\ builder.timeout = TimeoutSet(cell.log)
    /\ builder.secret = cell.secret

\* the client built is the one configured
BuiltAsConfigured ==
    /\ cell.res.ok
    /\ cell.res.val.uri = UriSet(cell.log)
    /\ cell.res.val.timeout = TimeoutSet(cell.log)
    /\ TextOf(cell.res.val.authorization) = BasicOf(cell.secret)
    /\ client = cell.res.val

(***************************************************************************)
(* C26  ClientBuilder::new(secret) followed by any sequence of uri(..) and *)
(* timeout(..) calls builds a Client whose base URI and timeout are the    *)
(* last values set, or https://db.fauna.com and 60 seconds for an option   *)
(* never set; setting one option never changes the other or the secret.    *)
(***************************************************************************)
C26_BuilderConfiguration ==
    /\ cell.op \in {"builder", "built"} => Configured
    /\ cell.op = "built" /\ cell.tls => BuiltAsConfigured

(***************************************************************************)
(* C26, amended: the builder holds the last values set, or the defaults,   *)
(* and setting one option never changes the other or the secret; build()   *)
(* returns the Client so configured when the uri text parses as a URI, and *)
(* the ConfigurationError error otherwise (ConnectionError when the TLS    *)
(* connector cannot be created).                                           *)
(***************************************************************************)
C26_BuilderConfigurationOfUri ==
    /\ cell.op \in {"builder", "built"} => Configured
    /\ cell.op = "built" /\ cell.tls /\ UriSet(cell.log) \notin {"", "db fauna"} =>
           BuiltAsConfigured
    /\ cell.op = "built" /\ cell.tls /\ UriSet(cell.log) \in {"", "db fauna"} =>
           ~cell.res.ok /\ cell.res.err.e = "ConfigurationError"
    /\ cell.op = "built" /\ ~cell.tls => ~cell.res.ok /\ cell.res.err.e = "ConnectionError"

\* a client was built after the uri was set twice and the timeout once
C26_Witness ==
    /\ cell.op = "built"
    /\ cell.log = <<[set |-> "uri", uri |-> ""], [set |-> "timeout", timeout |-> 30],
                    [set |-> "uri", uri |-> "http://localhost:8443"]>>
    /\ cell.res.ok
    /\ client.uri = "http://localhost:8443" /\ client.timeout = 30

============================================================================
